---- MODULE Spec2Model ----
(***************************************************************************)
(* Model of the aoi.mongo storage layer.  The repository ships two        *)
(* variants of class Database:                                             *)
(*   "classes"  src/classes/Database.js                                    *)
(*   "unnamed"  src/unnamed/part_000                                       *)
(* A deployment runs one of them; impl records which.  Every `await` of    *)
(* the source is a point where another call may run, so each call is a     *)
(* small process whose steps are the code between two awaits.  A store     *)
(* operation (findOne, updateOne, ...) is atomic at the server and may     *)
(* fail (store unavailable), which rejects the call.                       *)
(*                                                                         *)
(* Three specifications share the variables:                               *)
(*   Spec         get, set, delete, drop and deleteMany calls, up to two   *)
(*                in flight, on a connected store;                         *)
(*   SpecScan     findMany and all over tables of two collections;         *)
(*   SpecConnect  startup, from the constructor to the end of connect().   *)
(*                                                                         *)
(* Strings are sequences of one-character strings so that template         *)
(* literals (`${key}_${id}`) and key.split("_") are computed, not assumed. *)
(***************************************************************************)
EXTENDS Integers, Sequences, FiniteSets, TLC

\* ------------------------------------------------------------------ bounds
\* Number of calls the host application issues in one behaviour.
MaxCalls == 2

\* ------------------------------------------------------- values and strings
\* JS null and undefined as values of a record/cache entry/result.
Null == -1
Undefined == -2

\* The id argument left out (id = undefined); no string holds this element.
IdUndefined == <<"#undefined">>

UndefinedStr == <<"u", "n", "d", "e", "f", "i", "n", "e", "d">>

\* `${id}`: the string a template literal makes of id.
TemplateStr(id) == IF id = IdUndefined THEN UndefinedStr ELSE id

\* if (id): undefined and "" are falsy.
Truthy(id) == id # IdUndefined /\ id # <<>>

\* ------------------------------------------------------------------ inputs
Impls == {"classes", "unnamed"}
Procs == {"p1", "p2"}
Tables == {"main"}

KeyA == <<"a">>
KeyAB == <<"a", "_", "b">>
cooldown == <<"c", "o", "o", "l", "d", "o", "w", "n">>
setTimeout == <<"s", "e", "t", "T", "i", "m", "e", "o", "u", "t">>
ticketChannel == <<"t", "i", "c", "k", "e", "t", "C", "h", "a", "n", "n", "e", "l">>

\* const aoijs_vars = ["cooldown", "setTimeout", "ticketChannel"]
aoijs_vars == {cooldown, setTimeout, ticketChannel}

Keys == {KeyA, KeyAB, cooldown}
Values == {1, 2}

\* The (key, id) pairs the host application uses: "a" with and without an
\* id, and "a_b" and the system key "cooldown" without one.
Addresses == {<<KeyA, IdUndefined>>, <<KeyA, <<"b">>>>, <<KeyAB, IdUndefined>>,
              <<cooldown, IdUndefined>>}

\* The variable registry (external): "a" is declared in every table.
variableManager_has(key, table) == key = KeyA
variableManager_default(key, table) == IF key = KeyA THEN 0 ELSE Undefined

\* --------------------------------------------------------------- addressing
\* src/classes/Database.js: let cacheKey = key; if (id) cacheKey = `${key}_${id}`
get_cacheKey(key, id) == IF Truthy(id) THEN key \o <<"_">> \o TemplateStr(id) ELSE key
set_cacheKey(key, id) == IF Truthy(id) THEN key \o <<"_">> \o TemplateStr(id) ELSE key
delete_dbkey(key, id) == IF Truthy(id) THEN key \o <<"_">> \o TemplateStr(id) ELSE key

\* src/unnamed/part_000: const cacheKey = `${key}_${id}`
u_get_cacheKey(key, id) == key \o <<"_">> \o TemplateStr(id)
u_set_cacheKey(key, id) == key \o <<"_">> \o TemplateStr(id)
u_delete_dbkey(key, id) == key \o <<"_">> \o TemplateStr(id)

\* ------------------------------------------------------------ document store
\* A table's namespace is the sequence of its collections in enumeration
\* order; a collection is [name, docs], docs a sequence of [key, value].
ColIndex(cols, name) ==
  IF \E i \in 1..Len(cols) : cols[i].name = name
  THEN CHOOSE i \in 1..Len(cols) : cols[i].name = name
  ELSE 0

DocIndex(docs, k) ==
  IF \E i \in 1..Len(docs) : docs[i].key = k
  THEN CHOOSE i \in 1..Len(docs) :
         docs[i].key = k /\ \A j \in 1..(i - 1) : docs[j].key # k
  ELSE 0

CollectionDocs(cols, name) ==
  IF ColIndex(cols, name) = 0 THEN <<>> ELSE cols[ColIndex(cols, name)].docs

\* col.findOne({key: k}): the first matching document, or none (0).
findOne(cols, name, k) == DocIndex(CollectionDocs(cols, name), k)

HasDoc(cols, name, k) == findOne(cols, name, k) # 0

DocValue(cols, name, k) == CollectionDocs(cols, name)[findOne(cols, name, k)].value

\* col.updateOne({key: k}, {$set: {value: v}}, {upsert: true})
updateOne(cols, name, k, v) ==
  LET c == ColIndex(cols, name) IN
  IF c = 0
  THEN Append(cols, [name |-> name, docs |-> <<[key |-> k, value |-> v]>>])
  ELSE LET d == DocIndex(cols[c].docs, k) IN
       IF d = 0
       THEN [cols EXCEPT ![c].docs = Append(@, [key |-> k, value |-> v])]
       ELSE [cols EXCEPT ![c].docs[d].value = v]

RemoveAt(s, i) == SubSeq(s, 1, i - 1) \o SubSeq(s, i + 1, Len(s))

\* col.deleteOne({key: k})
deleteOne(cols, name, k) ==
  LET c == ColIndex(cols, name) IN
  IF c = 0 THEN cols
  ELSE LET d == DocIndex(cols[c].docs, k) IN
       IF d = 0 THEN cols ELSE [cols EXCEPT ![c].docs = RemoveAt(@, d)]

\* db.collection(name).drop()
dropCollection(cols, name) ==
  IF ColIndex(cols, name) = 0 THEN cols ELSE RemoveAt(cols, ColIndex(cols, name))

\* db.listCollections().toArray(): the names, in enumeration order.
listCollections(cols) == [i \in 1..Len(cols) |-> cols[i].name]

\* ------------------------------------------------------------------- cache
\* A table's cache is a function from the cached keys to their values.
CacheHas(c, k) == k \in DOMAIN c
CacheSet(c, k, v) == [x \in (DOMAIN c) \cup {k} |-> IF x = k THEN v ELSE c[x]]
CacheDelete(c, k) == [x \in (DOMAIN c) \ {k} |-> c[x]]
\* cache.get(k): undefined when absent.
CacheGet(c, k) == IF k \in DOMAIN c THEN c[k] ELSE Undefined
EmptyCache == [x \in {} |-> 0]

RECURSIVE LoadDocs(_, _)
LoadDocs(c, docs) ==
  IF docs = <<>> THEN c
  ELSE LoadDocs(CacheSet(c, Head(docs).key, Head(docs).value), Tail(docs))

RECURSIVE loadCacheFromDB(_, _)
\* part_000: every document of every collection is put in the cache.
loadCacheFromDB(c, cols) ==
  IF cols = <<>> THEN c
  ELSE loadCacheFromDB(LoadDocs(c, Head(cols).docs), Tail(cols))

\* -------------------------------------------------------------------- state
VARIABLES impl, store, cache, calls, ncalls, faulted

vars == <<impl, store, cache, calls, ncalls, faulted>>

\* The query argument of deleteMany and findMany: a function of one
\* argument or a filter document of the store.  The three used are
\* (d) => d.value === 1, () => true and {value: 1}.
Queries ==
  { [fn |-> TRUE, test |-> "value=1"],
    [fn |-> TRUE, test |-> "true"],
    [fn |-> FALSE, test |-> "value=1"] }

NoQuery == [fn |-> FALSE, test |-> "none"]

\* The documents a query selects.
Matches(q, doc) ==
  \/ q.test = "true"
  \/ q.test = "value=1" /\ doc.value = 1
  \/ q.test = "value>0" /\ doc.value > 0

\* query(cacheKey): the function applied to a key name, a string, whose
\* .value is undefined.
QueryCall(q, name) == q.test = "true"

RECURSIVE Split0(_)
\* key.split("_")[0]: the part of key before its first underscore.
Split0(k) ==
  IF k = <<>> \/ Head(k) = "_" THEN <<>> ELSE <<Head(k)>> \o Split0(Tail(k))

NoKey == <<>>
NoResult == [kind |-> "none", key |-> NoKey, value |-> Undefined]

\* A caller with no call in flight and no finished call to look at.
\* seq numbers the calls in the order they were issued; alone says that no
\* other call was in flight at any time of this one; hit, found, reads and
\* cwrites record what the call did (cache hit, document found, store reads,
\* cache writes); before is the set of keys cached when a drop was issued.
\* faulted says that some store operation has been rejected as unavailable.
Idle ==
  [op |-> "none", table |-> "main", key |-> NoKey, id |-> IdUndefined,
   value |-> Undefined, pc |-> "idle", ck |-> NoKey, doc |-> Undefined,
   cols |-> <<>>, i |-> 0, err |-> "none", result |-> NoResult,
   hit |-> FALSE, found |-> FALSE, reads |-> 0, cwrites |-> 0,
   seq |-> 0, alone |-> TRUE, before |-> {}, query |-> NoQuery,
   limit |-> Undefined, sort |-> "asc", results |-> <<>>, j |-> 0]

\* Stores a deployment may find when it connects.
StoreOf(im) ==
  LET ab == IF im = "classes" THEN get_cacheKey(KeyA, <<"b">>)
            ELSE u_get_cacheKey(KeyA, <<"b">>)
      cd == IF im = "classes" THEN get_cacheKey(cooldown, IdUndefined)
            ELSE u_get_cacheKey(cooldown, IdUndefined)
  IN { <<>>,
       <<[name |-> KeyA, docs |-> <<[key |-> ab, value |-> 1]>>]>>,
       <<[name |-> cooldown, docs |-> <<[key |-> cd, value |-> 1]>>],
         [name |-> KeyA, docs |-> <<[key |-> ab, value |-> 1]>>]>> }

\* connect(): a cache per table; part_000 loads it from the store,
\* Database.js creates it empty (load() is never called).
connect(im, cols) == IF im = "unnamed" THEN loadCacheFromDB(EmptyCache, cols) ELSE EmptyCache

Init ==
  /\ impl \in Impls
  /\ store \in [Tables -> StoreOf(impl)]
  /\ cache = [t \in Tables |-> connect(impl, store[t])]
  /\ calls = [p \in Procs |-> Idle]
  /\ ncalls = 0
  /\ faulted = FALSE

Running(p) == calls[p].pc \notin {"idle", "done"}

Settled(p) == calls[p].pc = "done"

\* Failures the store reports; any other error is raised by the code itself.
StoreErrors == {"StorageUnavailable", "NotFound"}

\* The host application issues a call.  Callers are taken in order (p2 is
\* used once p1 has been), which only removes mirror images.
Issue(p, c) ==
  /\ ~Running(p)
  /\ p = "p2" => calls["p1"].pc # "idle"
  /\ ncalls < MaxCalls
  /\ ncalls' = ncalls + 1
  /\ calls' = [q \in Procs |->
       IF q = p
       THEN [c EXCEPT !.pc = "start", !.seq = ncalls + 1,
                      !.alone = \A r \in Procs \ {p} : ~Running(r)]
       ELSE IF Running(q) THEN [calls[q] EXCEPT !.alone = FALSE] ELSE calls[q]]
  /\ UNCHANGED <<impl, faulted, store, cache>>

Begin(p, op, t, key, id, v) ==
  Issue(p, [Idle EXCEPT !.op = op, !.table = t, !.key = key, !.id = id,
                        !.value = v,
                        !.before = IF op = "drop" THEN DOMAIN cache[t] ELSE {}])

Call(p) ==
  \/ \E t \in Tables, a \in Addresses :
       \/ Begin(p, "get", t, a[1], a[2], Undefined)
       \/ Begin(p, "delete", t, a[1], a[2], Undefined)
       \/ \E v \in Values : Begin(p, "set", t, a[1], a[2], v)
  \/ \E t \in Tables, key \in {KeyA, NoKey} :
       Begin(p, "drop", t, key, IdUndefined, Undefined)
  \/ \E t \in Tables, q \in Queries :
       Issue(p, [Idle EXCEPT !.op = "deleteMany", !.table = t, !.query = q])

Finish(c, kind, key, value) ==
  [c EXCEPT !.pc = "done", !.result = [kind |-> kind, key |-> key, value |-> value]]

Throw(c, err) == [c EXCEPT !.pc = "done", !.err = err, !.result = NoResult]

\* The pcs at which a call waits for a store operation.
StorePcs ==
  {"find_sys", "find", "upsert", "scan", "deleteOne", "count", "dropcol",
   "dm_list", "dm_delete", "fm_find", "all_find", "c_list", "c_find"}

\* StoreFails with a get answering the registry default when its read fails.
StoreFails_ServeDefault(p) ==
  /\ \/ calls[p].pc \in StorePcs
     \/ /\ calls[p].op \in {"delete", "drop", "findMany", "all", "connect"}
        /\ calls[p].pc = "start"
  /\ calls' = [calls EXCEPT ![p] =
       IF @.op = "get"
       THEN Finish(@, "pair", @.ck, variableManager_default(@.key, @.table))
       ELSE Throw(@, "StorageUnavailable")]
  /\ faulted' = TRUE
  /\ UNCHANGED <<impl, store, cache, ncalls>>

\* A store operation rejected because the store is unavailable.
StoreFails(p) ==
  /\ \/ calls[p].pc \in StorePcs
     \/ /\ calls[p].op \in {"delete", "drop", "findMany", "all", "connect"}
        /\ calls[p].pc = "start"
  /\ calls' = [calls EXCEPT ![p] = Throw(@, "StorageUnavailable")]
  /\ faulted' = TRUE
  /\ UNCHANGED <<impl, store, cache, ncalls>>

\* get_Start without the cache lookup of lines 117-122.
get_Start_NoCacheCheck(p) ==
  LET c == calls[p]
      k == get_cacheKey(c.key, c.id)
  IN /\ impl = "classes" /\ c.op = "get" /\ c.pc = "start"
     /\ calls' = [calls EXCEPT ![p] =
          IF c.key \in aoijs_vars
          THEN [c EXCEPT !.ck = k, !.pc = "find_sys"]
          ELSE IF ~variableManager_has(c.key, c.table)
          THEN Finish([c EXCEPT !.ck = k], "undefined", NoKey, Undefined)
          ELSE [c EXCEPT !.ck = k, !.pc = "find"]]
     /\ UNCHANGED <<impl, faulted, store, cache, ncalls>>

\* ------------------------------------------- src/classes/Database.js: get
\* Lines 108-137: cacheKey, the cache read, and the choice of the path.
get_Start(p) ==
  LET c == calls[p]
      k == get_cacheKey(c.key, c.id)
      cachedValue == CacheGet(cache[c.table], k)
  IN /\ impl = "classes" /\ c.op = "get" /\ c.pc = "start"
     /\ calls' = [calls EXCEPT ![p] =
          IF cachedValue # Undefined
          THEN Finish([c EXCEPT !.ck = k, !.hit = TRUE], "pair", k, cachedValue)
          ELSE IF c.key \in aoijs_vars
          THEN [c EXCEPT !.ck = k, !.pc = "find_sys"]
          ELSE IF ~variableManager_has(c.key, c.table)
          THEN Finish([c EXCEPT !.ck = k], "undefined", NoKey, Undefined)
          ELSE [c EXCEPT !.ck = k, !.pc = "find"]]
     /\ UNCHANGED <<impl, faulted, store, cache, ncalls>>

\* Lines 129 and 139: findOne({key: cacheKey}) at the store.
get_FindOne(p) ==
  LET c == calls[p]
      cols == store[c.table]
      f == HasDoc(cols, c.key, c.ck)
  IN /\ impl = "classes" /\ c.op = "get" /\ c.pc \in {"find_sys", "find"}
     /\ calls' = [calls EXCEPT ![p] =
          [c EXCEPT !.pc = IF c.pc = "find_sys" THEN "got_sys" ELSE "got",
                    !.found = f, !.reads = @ + 1,
                    !.doc = IF f THEN DocValue(cols, c.key, c.ck) ELSE Undefined]]
     /\ UNCHANGED <<impl, faulted, store, cache, ncalls>>

\* get_Populate with the registry default returned but not cached.
get_Populate_NoDefaultCache(p) ==
  LET c == calls[p]
      t == c.table
      __var == variableManager_default(c.key, t)
  IN /\ impl = "classes" /\ c.op = "get" /\ c.pc \in {"got_sys", "got"}
     /\ IF c.found
        THEN /\ cache' = [cache EXCEPT ![t] = CacheSet(@, c.ck, c.doc)]
             /\ calls' = [calls EXCEPT ![p] =
                  Finish([c EXCEPT !.cwrites = @ + 1], "pair", c.ck, c.doc)]
        ELSE IF c.pc = "got_sys"
        THEN /\ cache' = cache
             /\ calls' = [calls EXCEPT ![p] = Finish(c, "pair", c.ck, Null)]
        ELSE /\ cache' = cache
             /\ calls' = [calls EXCEPT ![p] = Finish(c, "pair", c.ck, __var)]
     /\ UNCHANGED <<impl, faulted, store, ncalls>>

\* get_Populate with a system key that has no record answered like a
\* declared key, by the registry default.
get_Populate_SystemDefault(p) ==
  LET c == calls[p]
      t == c.table
      __var == variableManager_default(c.key, t)
  IN /\ impl = "classes" /\ c.op = "get" /\ c.pc \in {"got_sys", "got"}
     /\ IF c.found
        THEN /\ cache' = [cache EXCEPT ![t] = CacheSet(@, c.ck, c.doc)]
             /\ calls' = [calls EXCEPT ![p] =
                  Finish([c EXCEPT !.cwrites = @ + 1], "pair", c.ck, c.doc)]
        ELSE /\ cache' = [cache EXCEPT ![t] = CacheSet(@, c.ck, __var)]
             /\ calls' = [calls EXCEPT ![p] =
                  Finish([c EXCEPT !.cwrites = @ + 1], "pair", c.ck, __var)]
     /\ UNCHANGED <<impl, faulted, store, ncalls>>

\* Lines 130-135 (system key) and 140-147 (declared key): populate and return.
get_Populate(p) ==
  LET c == calls[p]
      t == c.table
      __var == variableManager_default(c.key, t)
  IN /\ impl = "classes" /\ c.op = "get" /\ c.pc \in {"got_sys", "got"}
     /\ IF c.found
        THEN /\ cache' = [cache EXCEPT ![t] = CacheSet(@, c.ck, c.doc)]
             /\ calls' = [calls EXCEPT ![p] =
                  Finish([c EXCEPT !.cwrites = @ + 1], "pair", c.ck, c.doc)]
        ELSE IF c.pc = "got_sys"
        THEN /\ cache' = cache
             /\ calls' = [calls EXCEPT ![p] = Finish(c, "pair", c.ck, Null)]
        ELSE /\ cache' = [cache EXCEPT ![t] = CacheSet(@, c.ck, __var)]
             /\ calls' = [calls EXCEPT ![p] =
                  Finish([c EXCEPT !.cwrites = @ + 1], "pair", c.ck, __var)]
     /\ UNCHANGED <<impl, faulted, store, ncalls>>

\* ------------------------------------------- src/classes/Database.js: set
\* Lines 159-169: cacheName is not declared in set, so the cache access
\* throws a ReferenceError before the cache or the store is touched.
set_Start(p) ==
  LET c == calls[p]
      k == set_cacheKey(c.key, c.id)
  IN /\ impl = "classes" /\ c.op = "set" /\ c.pc = "start"
     /\ calls' = [calls EXCEPT ![p] = Throw([c EXCEPT !.ck = k], "ReferenceError")]
     /\ UNCHANGED <<impl, faulted, store, cache, ncalls>>

\* ------------------------------------------ src/classes/Database.js: drop
\* Lines 186-190: drop the variable's collection, or the whole database.
\* Dropping a collection that does not exist is rejected by some driver
\* versions ("ns not found") and accepted by others.
drop_Store(p) ==
  LET c == calls[p]
      t == c.table
  IN /\ impl = "classes" /\ c.op = "drop" /\ c.pc = "start"
     /\ IF c.key # NoKey
        THEN IF ColIndex(store[t], c.key) # 0
             THEN /\ store' = [store EXCEPT ![t] = dropCollection(@, c.key)]
                  /\ calls' = [calls EXCEPT ![p].pc = "evict"]
             ELSE /\ store' = store
                  /\ \/ calls' = [calls EXCEPT ![p] = Throw(@, "NotFound")]
                     \/ calls' = [calls EXCEPT ![p].pc = "evict"]
        ELSE /\ store' = [store EXCEPT ![t] = <<>>]
             /\ calls' = [calls EXCEPT ![p].pc = "evict"]
     /\ UNCHANGED <<impl, faulted, cache, ncalls>>

\* Lines 192-194: for (const key of cache.keys()) cache.delete(key)
drop_Evict(p) ==
  LET c == calls[p]
  IN /\ impl = "classes" /\ c.op = "drop" /\ c.pc = "evict"
     /\ cache' = [cache EXCEPT ![c.table] = EmptyCache]
     /\ calls' = [calls EXCEPT ![p] = Finish(c, "void", NoKey, Undefined)]
     /\ UNCHANGED <<impl, faulted, store, ncalls>>

\* ---------------------------------------- src/classes/Database.js: delete
\* Lines 246-254: dbkey and the list of the table's collections.
delete_List(p) ==
  LET c == calls[p]
      names == listCollections(store[c.table])
      k == delete_dbkey(c.key, c.id)
  IN /\ impl = "classes" /\ c.op = "delete" /\ c.pc = "start"
     /\ calls' = [calls EXCEPT ![p] =
          IF names = <<>> THEN Finish([c EXCEPT !.ck = k], "void", NoKey, Undefined)
          ELSE [c EXCEPT !.ck = k, !.cols = names, !.i = 1, !.pc = "scan"]]
     /\ UNCHANGED <<impl, faulted, store, cache, ncalls>>

\* delete_FindOne with the cache entry evicted also when no document is found.
delete_FindOne_EvictOnMiss(p) ==
  LET c == calls[p]
      f == HasDoc(store[c.table], c.cols[c.i], c.ck)
  IN /\ impl = "classes" /\ c.op = "delete" /\ c.pc = "scan"
     /\ calls' = [calls EXCEPT ![p] =
          IF f THEN [c EXCEPT !.found = TRUE, !.reads = @ + 1, !.pc = "deleteOne"]
          ELSE IF c.i = Len(c.cols)
          THEN Finish([c EXCEPT !.reads = @ + 1], "void", NoKey, Undefined)
          ELSE [c EXCEPT !.reads = @ + 1, !.i = @ + 1]]
     /\ cache' = IF f THEN cache ELSE [cache EXCEPT ![c.table] = CacheDelete(@, c.ck)]
     /\ UNCHANGED <<impl, faulted, store, ncalls>>

\* Lines 256-260: findOne({key: dbkey}) in the next collection of the list.
delete_FindOne(p) ==
  LET c == calls[p]
      f == HasDoc(store[c.table], c.cols[c.i], c.ck)
  IN /\ impl = "classes" /\ c.op = "delete" /\ c.pc = "scan"
     /\ calls' = [calls EXCEPT ![p] =
          IF f THEN [c EXCEPT !.found = TRUE, !.reads = @ + 1, !.pc = "deleteOne"]
          ELSE IF c.i = Len(c.cols)
          THEN Finish([c EXCEPT !.reads = @ + 1], "void", NoKey, Undefined)
          ELSE [c EXCEPT !.reads = @ + 1, !.i = @ + 1]]
     /\ UNCHANGED <<impl, faulted, store, cache, ncalls>>

\* Line 266: deleteOne({key: dbkey}) in the collection that held it.
delete_DeleteOne(p) ==
  LET c == calls[p]
  IN /\ impl = "classes" /\ c.op = "delete" /\ c.pc = "deleteOne"
     /\ store' = [store EXCEPT ![c.table] = deleteOne(@, c.cols[c.i], c.ck)]
     /\ calls' = [calls EXCEPT ![p].pc = "evict"]
     /\ UNCHANGED <<impl, faulted, cache, ncalls>>

\* Lines 267-269: evict the cache entry and stop.
delete_Evict(p) ==
  LET c == calls[p]
  IN /\ impl = "classes" /\ c.op = "delete" /\ c.pc = "evict"
     /\ cache' = [cache EXCEPT ![c.table] = CacheDelete(@, c.ck)]
     /\ calls' = [calls EXCEPT ![p] = Finish(c, "void", NoKey, Undefined)]
     /\ UNCHANGED <<impl, faulted, store, ncalls>>

\* ----------------------------------------------- src/unnamed/part_000: get
\* Lines 109-135: a system key goes to the store; any other key is answered
\* from the cache or the registry default, never from the store.
u_get_Start(p) ==
  LET c == calls[p]
      t == c.table
      k == u_get_cacheKey(c.key, c.id)
      __var == variableManager_default(c.key, t)
      cached == CacheGet(cache[t], k)
  IN /\ impl = "unnamed" /\ c.op = "get" /\ c.pc = "start"
     /\ calls' = [calls EXCEPT ![p] =
          IF c.key \in aoijs_vars
          THEN [c EXCEPT !.ck = k, !.pc = "find_sys"]
          ELSE IF ~variableManager_has(c.key, t)
          THEN Finish([c EXCEPT !.ck = k], "undefined", NoKey, Undefined)
          ELSE Finish([c EXCEPT !.ck = k, !.hit = CacheHas(cache[t], k)], "pair", k,
                      IF cached \in {Undefined, Null} THEN __var ELSE cached)]
     /\ UNCHANGED <<impl, faulted, store, cache, ncalls>>

\* Line 121: data = findOne({key: cacheKey}), returned as it is.
u_get_FindOne(p) ==
  LET c == calls[p]
      cols == store[c.table]
      f == HasDoc(cols, c.key, c.ck)
  IN /\ impl = "unnamed" /\ c.op = "get" /\ c.pc = "find_sys"
     /\ calls' = [calls EXCEPT ![p] =
          IF f
          THEN Finish([c EXCEPT !.found = TRUE, !.reads = @ + 1], "doc", c.ck,
                      DocValue(cols, c.key, c.ck))
          ELSE Finish([c EXCEPT !.reads = @ + 1], "null", NoKey, Null)]
     /\ UNCHANGED <<impl, faulted, store, cache, ncalls>>

\* ----------------------------------------------- src/unnamed/part_000: set
\* Lines 144-149: the cache is written first.
u_set_Start(p) ==
  LET c == calls[p]
      t == c.table
      k == u_set_cacheKey(c.key, c.id)
  IN /\ impl = "unnamed" /\ c.op = "set" /\ c.pc = "start"
     /\ cache' = [cache EXCEPT ![t] = CacheSet(@, k, c.value)]
     /\ calls' = [calls EXCEPT ![p] = [c EXCEPT !.ck = k, !.pc = "upsert", !.cwrites = @ + 1]]
     /\ UNCHANGED <<impl, faulted, store, ncalls>>

\* Lines 151-152: the upsert into the key's collection.
u_set_UpdateOne(p) ==
  LET c == calls[p]
      t == c.table
  IN /\ impl = "unnamed" /\ c.op = "set" /\ c.pc = "upsert"
     /\ store' = [store EXCEPT ![t] = updateOne(@, c.key, c.ck, c.value)]
     /\ calls' = [calls EXCEPT ![p] = Finish(c, "void", NoKey, Undefined)]
     /\ UNCHANGED <<impl, faulted, cache, ncalls>>

\* ---------------------------------------------- src/unnamed/part_000: drop
\* Lines 163-167: as in Database.js.
u_drop_Store(p) ==
  LET c == calls[p]
      t == c.table
  IN /\ impl = "unnamed" /\ c.op = "drop" /\ c.pc = "start"
     /\ IF c.key # NoKey
        THEN IF ColIndex(store[t], c.key) # 0
             THEN /\ store' = [store EXCEPT ![t] = dropCollection(@, c.key)]
                  /\ calls' = [calls EXCEPT ![p].pc = "evict"]
             ELSE /\ store' = store
                  /\ \/ calls' = [calls EXCEPT ![p] = Throw(@, "NotFound")]
                     \/ calls' = [calls EXCEPT ![p].pc = "evict"]
        ELSE /\ store' = [store EXCEPT ![t] = <<>>]
             /\ calls' = [calls EXCEPT ![p].pc = "evict"]
     /\ UNCHANGED <<impl, faulted, cache, ncalls>>

\* Line 169: delete this.client.cacheManager.caches("Group", `c_${table}`).
\* caches is the object every other method indexes (caches["Group"][name]),
\* so calling it throws a TypeError; the table's cache is left as it was.
u_drop_Cache(p) ==
  LET c == calls[p]
  IN /\ impl = "unnamed" /\ c.op = "drop" /\ c.pc = "evict"
     /\ calls' = [calls EXCEPT ![p] = Throw(c, "TypeError")]
     /\ UNCHANGED <<impl, faulted, store, cache, ncalls>>

\* -------------------------------------------- src/unnamed/part_000: delete
\* Lines 211-214: the list of the table's collections, and dbkey.
u_delete_List(p) ==
  LET c == calls[p]
      names == listCollections(store[c.table])
      k == u_delete_dbkey(c.key, c.id)
  IN /\ impl = "unnamed" /\ c.op = "delete" /\ c.pc = "start"
     /\ calls' = [calls EXCEPT ![p] =
          IF names = <<>> THEN Finish([c EXCEPT !.ck = k], "void", NoKey, Undefined)
          ELSE [c EXCEPT !.ck = k, !.cols = names, !.i = 1, !.pc = "scan"]]
     /\ UNCHANGED <<impl, faulted, store, cache, ncalls>>

\* Lines 217-221: findOne({key: dbkey}) in the next collection of the list.
u_delete_FindOne(p) ==
  LET c == calls[p]
      f == HasDoc(store[c.table], c.cols[c.i], c.ck)
  IN /\ impl = "unnamed" /\ c.op = "delete" /\ c.pc = "scan"
     /\ calls' = [calls EXCEPT ![p] =
          IF f THEN [c EXCEPT !.found = TRUE, !.reads = @ + 1, !.pc = "deleteOne"]
          ELSE IF c.i = Len(c.cols)
          THEN Finish([c EXCEPT !.reads = @ + 1], "void", NoKey, Undefined)
          ELSE [c EXCEPT !.reads = @ + 1, !.i = @ + 1]]
     /\ UNCHANGED <<impl, faulted, store, cache, ncalls>>

\* Line 222: deleteOne({key: dbkey}).
u_delete_DeleteOne(p) ==
  LET c == calls[p]
  IN /\ impl = "unnamed" /\ c.op = "delete" /\ c.pc = "deleteOne"
     /\ store' = [store EXCEPT ![c.table] = deleteOne(@, c.cols[c.i], c.ck)]
     /\ calls' = [calls EXCEPT ![p].pc = "evict"]
     /\ UNCHANGED <<impl, faulted, cache, ncalls>>

\* Lines 224-227: evict the cache entry, then count the collection.
u_delete_Evict(p) ==
  LET c == calls[p]
  IN /\ impl = "unnamed" /\ c.op = "delete" /\ c.pc = "evict"
     /\ cache' = [cache EXCEPT ![c.table] = CacheDelete(@, c.ck)]
     /\ calls' = [calls EXCEPT ![p].pc = "count"]
     /\ UNCHANGED <<impl, faulted, store, ncalls>>

\* Line 227: countDocuments({}) === 0 decides whether the collection goes.
u_delete_Count(p) ==
  LET c == calls[p]
  IN /\ impl = "unnamed" /\ c.op = "delete" /\ c.pc = "count"
     /\ calls' = [calls EXCEPT ![p] =
          IF Len(CollectionDocs(store[c.table], c.cols[c.i])) = 0
          THEN [c EXCEPT !.pc = "dropcol"]
          ELSE Finish(c, "void", NoKey, Undefined)]
     /\ UNCHANGED <<impl, faulted, store, cache, ncalls>>

\* Line 227: col.drop() of the emptied collection.
u_delete_Drop(p) ==
  LET c == calls[p]
      t == c.table
  IN /\ impl = "unnamed" /\ c.op = "delete" /\ c.pc = "dropcol"
     /\ IF ColIndex(store[t], c.cols[c.i]) # 0
        THEN /\ store' = [store EXCEPT ![t] = dropCollection(@, c.cols[c.i])]
             /\ calls' = [calls EXCEPT ![p] = Finish(c, "void", NoKey, Undefined)]
        ELSE /\ store' = store
             /\ \/ calls' = [calls EXCEPT ![p] = Throw(c, "NotFound")]
                \/ calls' = [calls EXCEPT ![p] = Finish(c, "void", NoKey, Undefined)]
     /\ UNCHANGED <<impl, faulted, cache, ncalls>>

\* ------------------------------------------------------------ specification
\* -------------------------------------------------------------- deleteMany
\* The same code in both variants: Database.js lines 201-243 (the debug
\* branches apart), part_000 lines 176-205.
\* The documents of a collection that col.deleteMany(filter) leaves.
col_deleteMany(cols, name, q) ==
  [i \in 1..Len(cols) |->
     IF cols[i].name = name
     THEN [cols[i] EXCEPT !.docs = SelectSeq(@, LAMBDA d : ~Matches(q, d))]
     ELSE cols[i]]

\* Lines 208-231: the cache entries whose key name is declared with a
\* default are tested with query(name) and the chosen ones evicted.  A
\* query that is a filter document cannot be called: TypeError, before
\* anything is evicted.
deleteMany_Evict(p) ==
  LET c == calls[p]
      t == c.table
      declared == {k \in DOMAIN cache[t] :
                     /\ variableManager_has(Split0(k), t)
                     /\ variableManager_default(Split0(k), t) # Undefined}
      keysToDelete == {k \in declared : QueryCall(c.query, Split0(k))}
  IN /\ c.op = "deleteMany" /\ c.pc = "start"
     /\ IF declared # {} /\ ~c.query.fn
        THEN /\ calls' = [calls EXCEPT ![p] = Throw(c, "TypeError")]
             /\ cache' = cache
        ELSE /\ calls' = [calls EXCEPT ![p] = [c EXCEPT !.pc = "dm_list"]]
             /\ cache' = [cache EXCEPT ![t] =
                  [k \in DOMAIN @ \ keysToDelete |-> @[k]]]
     /\ UNCHANGED <<impl, faulted, store, ncalls>>

\* Lines 233-234: the collections of the table are listed.
deleteMany_List(p) ==
  LET c == calls[p]
      cols == listCollections(store[c.table])
  IN /\ c.op = "deleteMany" /\ c.pc = "dm_list"
     /\ calls' = [calls EXCEPT ![p] =
          IF cols = <<>> THEN Finish(c, "void", NoKey, Undefined)
          ELSE [c EXCEPT !.cols = cols, !.i = 1, !.pc = "dm_delete"]]
     /\ UNCHANGED <<impl, faulted, store, cache, ncalls>>

\* Lines 236-239: col.deleteMany(query) on the next collection.  A filter
\* document removes the documents it selects.  A function is not a filter:
\* what the driver makes of it is not fixed by this code, and it is either
\* rejected as a malformed command or sent as the empty filter, which
\* selects every document.
deleteMany_Collection(p) ==
  LET c == calls[p]
      t == c.table
      name == c.cols[c.i]
      next == IF c.i = Len(c.cols) THEN Finish(c, "void", NoKey, Undefined)
              ELSE [c EXCEPT !.i = @ + 1]
  IN /\ c.op = "deleteMany" /\ c.pc = "dm_delete"
     /\ IF ~c.query.fn
        THEN /\ store' = [store EXCEPT ![t] = col_deleteMany(@, name, c.query)]
             /\ calls' = [calls EXCEPT ![p] = next]
        ELSE \/ /\ store' = store
                /\ calls' = [calls EXCEPT ![p] = Throw(c, "MongoServerError")]
             \/ /\ store' = [store EXCEPT ![t] =
                     col_deleteMany(@, name, [fn |-> FALSE, test |-> "true"])]
                /\ calls' = [calls EXCEPT ![p] = next]
     /\ UNCHANGED <<impl, faulted, cache, ncalls>>

Next ==
  \E p \in Procs :
    \/ Call(p)
    \/ StoreFails(p)
    \/ get_Start(p)
    \/ get_FindOne(p)
    \/ get_Populate(p)
    \/ set_Start(p)
    \/ drop_Store(p)
    \/ drop_Evict(p)
    \/ delete_List(p)
    \/ delete_FindOne(p)
    \/ delete_DeleteOne(p)
    \/ delete_Evict(p)
    \/ u_get_Start(p)
    \/ u_get_FindOne(p)
    \/ u_set_Start(p)
    \/ u_set_UpdateOne(p)
    \/ u_drop_Store(p)
    \/ u_drop_Cache(p)
    \/ u_delete_List(p)
    \/ u_delete_FindOne(p)
    \/ u_delete_DeleteOne(p)
    \/ u_delete_Evict(p)
    \/ u_delete_Count(p)
    \/ u_delete_Drop(p)
    \/ deleteMany_Evict(p)
    \/ deleteMany_List(p)
    \/ deleteMany_Collection(p)

Spec == Init /\ [][Next]_vars

\* ------------------------------------------------------- findMany and all
\* The two scans read the store and leave it and the cache alone; the code
\* is the same in both variants (Database.js lines 281-330, part_000 lines
\* 243-292).  They are explored on their own, over tables of two
\* collections whose documents are drawn from ScanValues.
MaxDocs == 2

ScanValues == {0, 1, 5}

KeyX == <<"x">>
KeyY == <<"y">>

\* The j-th document of the collection of key name: name, name_2, ...
ScanDoc(name, j, v) ==
  [key |-> IF j = 1 THEN name ELSE name \o <<"_", ToString(j)>>, value |-> v]

ScanCollection(name, vs) ==
  [name |-> name, docs |-> [j \in 1..Len(vs) |-> ScanDoc(name, j, vs[j])]]

ValueSeqs == UNION {[1..n -> ScanValues] : n \in 0..MaxDocs}

ScanStores ==
  {<<ScanCollection(KeyX, xs), ScanCollection(KeyY, ys)>> : xs, ys \in ValueSeqs}

ScanQueries ==
  { [fn |-> TRUE, test |-> "value>0"],
    [fn |-> TRUE, test |-> "value=1"],
    [fn |-> FALSE, test |-> "value=1"] }

\* limit and list as the host passes them; Undefined is an omitted argument.
ScanLimits == {Undefined, 0, 1, 10}

\* list = 100, the default parameter of all.
DefaultList == 100

InitScan ==
  /\ impl \in Impls
  /\ store \in [Tables -> ScanStores]
  /\ cache = [t \in Tables |-> connect(impl, store[t])]
  /\ calls = [p \in Procs |-> Idle]
  /\ ncalls = 0
  /\ faulted = FALSE

\* The host issues a scan once the previous one has returned.
Scan_Issue(p) ==
  /\ ~Running(p)
  /\ \E t \in Tables, q \in ScanQueries, n \in ScanLimits :
       \/ calls' = [calls EXCEPT ![p] =
            [Idle EXCEPT !.op = "findMany", !.table = t, !.query = q,
                         !.limit = n, !.pc = "start"]]
       \/ /\ q.fn
          /\ \E srt \in {"asc", "desc"} :
               calls' = [calls EXCEPT ![p] =
                 [Idle EXCEPT !.op = "all", !.table = t, !.query = q,
                              !.limit = IF n = Undefined THEN DefaultList ELSE n,
                              !.sort = srt, !.pc = "start"]]
  /\ UNCHANGED <<impl, faulted, store, cache, ncalls>>

\* data.slice(0, n) for n >= 0.
Slice(data, n) == SubSeq(data, 1, IF n < Len(data) THEN n ELSE Len(data))

\* Database.js lines 282-284 and 308-310: listCollections, results = [].
scan_List(p) ==
  LET c == calls[p]
      cols == listCollections(store[c.table])
  IN /\ c.op \in {"findMany", "all"} /\ c.pc = "start"
     /\ calls' = [calls EXCEPT ![p] =
          IF cols = <<>> THEN Finish(c, "list", NoKey, Undefined)
          ELSE [c EXCEPT !.cols = cols, !.i = 1,
                         !.pc = IF c.op = "all" THEN "all_find" ELSE "fm_find"]]
     /\ UNCHANGED <<impl, faulted, store, cache, ncalls>>

\* findMany_Find with the limit applied to the merged results.
findMany_Find_MergedLimit(p) ==
  LET c == calls[p]
      docs == CollectionDocs(store[c.table], c.cols[c.i])
      data == SelectSeq(docs, LAMBDA d : Matches(c.query, d))
      merged == c.results \o data
      results == IF c.limit \notin {Undefined, 0} THEN Slice(merged, c.limit) ELSE merged
  IN /\ c.op = "findMany" /\ c.pc = "fm_find"
     /\ calls' = [calls EXCEPT ![p] =
          IF c.i = Len(c.cols)
          THEN Finish([c EXCEPT !.results = results, !.reads = @ + 1],
                      "list", NoKey, Undefined)
          ELSE [c EXCEPT !.results = results, !.reads = @ + 1, !.i = @ + 1]]
     /\ UNCHANGED <<impl, faulted, store, cache, ncalls>>

\* Database.js lines 286-302: the documents of the next collection that the
\* query selects (find({}) and filter for a function, find(query) for a
\* filter), cut to limit when limit is truthy, are appended to results.
findMany_Find(p) ==
  LET c == calls[p]
      docs == CollectionDocs(store[c.table], c.cols[c.i])
      found == SelectSeq(docs, LAMBDA d : Matches(c.query, d))
      data == IF c.limit \notin {Undefined, 0} THEN Slice(found, c.limit) ELSE found
      results == c.results \o data
  IN /\ c.op = "findMany" /\ c.pc = "fm_find"
     /\ calls' = [calls EXCEPT ![p] =
          IF c.i = Len(c.cols)
          THEN Finish([c EXCEPT !.results = results, !.reads = @ + 1],
                      "list", NoKey, Undefined)
          ELSE [c EXCEPT !.results = results, !.reads = @ + 1, !.i = @ + 1]]
     /\ UNCHANGED <<impl, faulted, store, cache, ncalls>>

\* (a, b) => a.value - b.value, or b.value - a.value for "desc".
Compare(srt, a, b) == IF srt = "asc" THEN a.value - b.value ELSE b.value - a.value

RECURSIVE InsertSorted(_, _, _)
\* d put into a sorted list after every record that does not sort after it.
InsertSorted(srt, sorted, d) ==
  IF sorted = <<>> THEN <<d>>
  ELSE IF Compare(srt, Head(sorted), d) <= 0
  THEN <<Head(sorted)>> \o InsertSorted(srt, Tail(sorted), d)
  ELSE <<d>> \o sorted

RECURSIVE Sort(_, _)
\* results.sort(compare): a stable sort.
Sort(srt, results) ==
  IF results = <<>> THEN <<>>
  ELSE InsertSorted(srt, Sort(srt, SubSeq(results, 1, Len(results) - 1)),
                    results[Len(results)])

\* all_Find with each collection cut to list before the merge.
all_Find_SliceFirst(p) ==
  LET c == calls[p]
      docs == CollectionDocs(store[c.table], c.cols[c.i])
      data == Slice(SelectSeq(docs, LAMBDA d : Matches(c.query, d)), c.limit)
      results == c.results \o data
  IN /\ c.op = "all" /\ c.pc = "all_find"
     /\ calls' = [calls EXCEPT ![p] =
          IF c.i = Len(c.cols)
          THEN Finish([c EXCEPT !.results = Slice(Sort(c.sort, results), c.limit),
                                !.reads = @ + 1],
                      "list", NoKey, Undefined)
          ELSE [c EXCEPT !.results = results, !.reads = @ + 1, !.i = @ + 1]]
     /\ UNCHANGED <<impl, faulted, store, cache, ncalls>>

\* Database.js lines 314-319: find({}) on the next collection, filter,
\* append; after the last collection (lines 321-329) sort and slice.
all_Find(p) ==
  LET c == calls[p]
      docs == CollectionDocs(store[c.table], c.cols[c.i])
      data == SelectSeq(docs, LAMBDA d : Matches(c.query, d))
      results == c.results \o data
  IN /\ c.op = "all" /\ c.pc = "all_find"
     /\ calls' = [calls EXCEPT ![p] =
          IF c.i = Len(c.cols)
          THEN Finish([c EXCEPT !.results = Slice(Sort(c.sort, results), c.limit),
                                !.reads = @ + 1],
                      "list", NoKey, Undefined)
          ELSE [c EXCEPT !.results = results, !.reads = @ + 1, !.i = @ + 1]]
     /\ UNCHANGED <<impl, faulted, store, cache, ncalls>>

NextScan ==
  \/ Scan_Issue("p1")
  \/ StoreFails("p1")
  \/ scan_List("p1")
  \/ findMany_Find("p1")
  \/ all_Find("p1")

SpecScan == InitScan /\ [][NextScan]_vars

\* ---------------------------------------------------------------- connect
\* Startup, from the constructor's call of connect() to its end.  The
\* tables are the configured one and the reserved one; the caches do not
\* exist until connect creates them.
db_tables == <<"main", "__aoijs_vars__">>

\* The state after construction: connect() has run up to
\* `await this.client.db.connect()`.
InitConnect ==
  /\ impl \in Impls
  /\ store \in [{db_tables[n] : n \in 1..Len(db_tables)} -> StoreOf(impl)]
  /\ cache = <<>>
  /\ calls = [p \in Procs |->
       IF p = "p1" THEN [Idle EXCEPT !.op = "connect", !.pc = "start"] ELSE Idle]
  /\ ncalls = 0
  /\ faulted = FALSE

\* Line 40 (both variants): the client has connected.
connect_Client(p) ==
  LET c == calls[p]
  IN /\ c.op = "connect" /\ c.pc = "start"
     /\ calls' = [calls EXCEPT ![p] =
          [c EXCEPT !.i = 1, !.table = db_tables[1], !.pc = "create"]]
     /\ UNCHANGED <<impl, faulted, store, cache, ncalls>>

\* Database.js lines 61-63: createCache for the next table.
connect_CreateCache(p) ==
  LET c == calls[p]
  IN /\ impl = "classes" /\ c.op = "connect" /\ c.pc = "create"
     /\ cache' = cache @@ (c.table :> EmptyCache)
     /\ calls' = [calls EXCEPT ![p] =
          IF c.i = Len(db_tables) THEN [c EXCEPT !.pc = "emit"]
          ELSE [c EXCEPT !.i = @ + 1, !.table = db_tables[c.i + 1]]]
     /\ UNCHANGED <<impl, faulted, store, ncalls>>

\* Database.js lines 64-65: "ready" is emitted and connect returns.
connect_Ready(p) ==
  LET c == calls[p]
  IN /\ impl = "classes" /\ c.op = "connect" /\ c.pc = "emit"
     /\ calls' = [calls EXCEPT ![p] = Finish(c, "ready", NoKey, Undefined)]
     /\ UNCHANGED <<impl, faulted, store, cache, ncalls>>

\* part_000 line 60: createCache for the next table; line 61 then calls
\* loadCacheFromDB.
u_connect_CreateCache(p) ==
  LET c == calls[p]
  IN /\ impl = "unnamed" /\ c.op = "connect" /\ c.pc = "create"
     /\ cache' = cache @@ (c.table :> EmptyCache)
     /\ calls' = [calls EXCEPT ![p] = [c EXCEPT !.pc = "c_list"]]
     /\ UNCHANGED <<impl, faulted, store, ncalls>>

\* Where connect goes on once collection c.j of table c.i is loaded.
u_connect_Continue(c) ==
  IF c.j < Len(c.cols) THEN [c EXCEPT !.j = @ + 1, !.pc = "c_find"]
  ELSE IF c.i < Len(db_tables)
  THEN [c EXCEPT !.i = @ + 1, !.table = db_tables[c.i + 1], !.pc = "create"]
  ELSE Finish(c, "void", NoKey, Undefined)

\* part_000 lines 86-87: the collections of the table.
u_connect_List(p) ==
  LET c == calls[p]
      cols == listCollections(store[c.table])
  IN /\ impl = "unnamed" /\ c.op = "connect" /\ c.pc = "c_list"
     /\ calls' = [calls EXCEPT ![p] =
          IF cols = <<>> THEN u_connect_Continue([c EXCEPT !.cols = cols, !.j = 0])
          ELSE [c EXCEPT !.cols = cols, !.j = 1, !.pc = "c_find"]]
     /\ UNCHANGED <<impl, faulted, store, cache, ncalls>>

\* part_000 lines 90-91: data = find({}) on the next collection.
u_connect_Find(p) ==
  LET c == calls[p]
      data == CollectionDocs(store[c.table], c.cols[c.j])
  IN /\ impl = "unnamed" /\ c.op = "connect" /\ c.pc = "c_find"
     /\ calls' = [calls EXCEPT ![p] =
          IF data = <<>> THEN u_connect_Continue(c)
          ELSE [c EXCEPT !.results = data, !.pc = "c_set"]]
     /\ UNCHANGED <<impl, faulted, store, cache, ncalls>>

\* part_000 lines 95-97: cache.set(item.key, item.value) for the next item.
u_connect_Set(p) ==
  LET c == calls[p]
      item == Head(c.results)
  IN /\ impl = "unnamed" /\ c.op = "connect" /\ c.pc = "c_set"
     /\ cache' = [cache EXCEPT ![c.table] = CacheSet(@, item.key, item.value)]
     /\ calls' = [calls EXCEPT ![p] =
          IF Tail(c.results) = <<>> THEN u_connect_Continue([c EXCEPT !.results = <<>>])
          ELSE [c EXCEPT !.results = Tail(@)]]
     /\ UNCHANGED <<impl, faulted, store, ncalls>>

NextConnect ==
  \/ connect_Client("p1")
  \/ StoreFails("p1")
  \/ connect_CreateCache("p1")
  \/ connect_Ready("p1")
  \/ u_connect_CreateCache("p1")
  \/ u_connect_List("p1")
  \/ u_connect_Find("p1")
  \/ u_connect_Set("p1")

SpecConnect == InitConnect /\ [][NextConnect]_vars

\* ------------------------------------------------------------------ claims
\* A call that has settled for a reason other than a failure of the store:
\* it returned, or the code itself threw.
Completed(p) == Settled(p) /\ calls[p].err \notin StoreErrors

SameAddress(p, q) ==
  /\ calls[p].table = calls[q].table
  /\ calls[p].key = calls[q].key
  /\ calls[p].id = calls[q].id

\* q was issued right after p, and neither overlapped any other call.
Follows(p, q) ==
  /\ calls[q].seq = calls[p].seq + 1
  /\ calls[p].alone /\ calls[q].alone

\* A key with a registry default, or a system key.
Resolvable(key, t) ==
  \/ key \in aoijs_vars
  \/ variableManager_has(key, t) /\ variableManager_default(key, t) # Undefined

Declared(key, t) ==
  /\ key \notin aoijs_vars
  /\ variableManager_has(key, t) /\ variableManager_default(key, t) # Undefined

\* The addressing rule of the specification: key alone when id is absent or
\* falsy, otherwise key + "_" + id.
CompositeKey(key, id) == IF Truthy(id) THEN key \o <<"_">> \o id ELSE key

EndsWith(s, suffix) ==
  /\ Len(s) >= Len(suffix)
  /\ SubSeq(s, Len(s) - Len(suffix) + 1, Len(s)) = suffix

NoRecordAnywhere(t, k) ==
  \A i \in 1..Len(store[t]) : DocIndex(store[t][i].docs, k) = 0

\* C1 (as stated): read-after-write.  A get issued right after a set on the
\* same table, key and id has settled returns the value that set wrote.  The
\* statement is taken for the keys get resolves at all (declared and system
\* keys), and for the get that directly follows the set.
C1_ReadAfterWrite ==
  \A p \in Procs, q \in Procs :
    ( /\ calls[p].op = "set" /\ Completed(p)
      /\ calls[q].op = "get" /\ Completed(q)
      /\ SameAddress(p, q) /\ Follows(p, q)
      /\ Resolvable(calls[p].key, calls[p].table) )
    => /\ calls[q].result.kind \in {"pair", "doc"}
       /\ calls[q].result.value = calls[p].value

\* C2 (as stated): concurrent writers.  Once two overlapping set calls on the
\* same compositeKey with values A # B have both settled, the key's
\* collection holds exactly one record for the compositeKey, its value is A
\* or B, and the cache entry equals it.
C2_ConcurrentWriters ==
  \A p \in Procs, q \in Procs :
    ( /\ p # q
      /\ calls[p].op = "set" /\ Completed(p)
      /\ calls[q].op = "set" /\ Completed(q)
      /\ SameAddress(p, q) /\ calls[p].value # calls[q].value
      /\ ~calls[p].alone /\ ~calls[q].alone )
    => LET t == calls[p].table
           k == calls[p].ck
           docs == CollectionDocs(store[t], calls[p].key)
       IN /\ Cardinality({i \in 1..Len(docs) : docs[i].key = k}) = 1
          /\ DocValue(store[t], calls[p].key, k) \in {calls[p].value, calls[q].value}
          /\ CacheHas(cache[t], k)
          /\ cache[t][k] = DocValue(store[t], calls[p].key, k)

\* C3 (as stated): cache/store agreement.  Whenever no set, delete or drop is
\* in flight, every cache entry whose compositeKey has a record in the store
\* equals that record's value.  Taken for the runs in which the store never
\* failed, so that the window after a failed upsert is not what refutes it.
C3_CacheStoreAgreement ==
  (~faulted /\ \A p \in Procs : Running(p) => calls[p].op = "get")
  => \A t \in Tables : \A k \in DOMAIN cache[t] :
       \A i \in 1..Len(store[t]) :
         \A j \in 1..Len(store[t][i].docs) :
           store[t][i].docs[j].key = k => store[t][i].docs[j].value = cache[t][k]

\* A get of a declared key that found neither a cache entry nor a record.
FirstDefault(p) ==
  /\ calls[p].op = "get" /\ Settled(p) /\ calls[p].err = "none"
  /\ Declared(calls[p].key, calls[p].table)
  /\ ~calls[p].hit /\ ~calls[p].found

NextGet(p, q) ==
  /\ calls[q].op = "get" /\ Settled(q)
  /\ SameAddress(p, q) /\ Follows(p, q)

C5_DropClearsCache ==
  \A p \in Procs, q \in Procs :
    ( /\ calls[p].op = "drop" /\ calls[p].key = NoKey /\ Completed(p)
      /\ calls[q].op = "get" /\ Completed(q)
      /\ calls[q].table = calls[p].table /\ Follows(p, q)
      /\ calls[q].ck \in calls[p].before )
    => /\ ~calls[q].hit
       /\ \/ calls[q].result.kind \in {"undefined", "null"}
          \/ calls[q].result.value
               \in {Null, variableManager_default(calls[q].key, calls[q].table)}

\* The compositeKey a delete call addresses.
DeleteKey(c) ==
  IF impl = "classes" THEN delete_dbkey(c.key, c.id) ELSE u_delete_dbkey(c.key, c.id)

\* C6: idempotent delete.  Every step of a delete call that has found no
\* document, taken while no collection of the table holds a record for its
\* compositeKey, leaves the store and every cache entry as they were, and
\* the call does not fail unless the store itself is unavailable.
C6_IdempotentDelete ==
  [][\A p \in Procs :
       ( /\ calls[p].op = "delete" /\ Running(p) /\ ~calls[p].found
         /\ calls'[p] # calls[p]
         /\ NoRecordAnywhere(calls[p].table, DeleteKey(calls[p])) )
       => /\ store' = store /\ cache' = cache
          /\ ~calls'[p].found
          /\ calls'[p].err \in {"none", "StorageUnavailable"}]_vars

\* A delete that scanned a collection, found nothing, and left in place the
\* cache entry of its compositeKey.
C6_Witness ==
  \E p \in Procs :
    /\ calls[p].op = "delete" /\ Settled(p) /\ calls[p].err = "none"
    /\ ~calls[p].found /\ calls[p].reads >= 1
    /\ CacheHas(cache[calls[p].table], calls[p].ck)
    /\ NoRecordAnywhere(calls[p].table, calls[p].ck)

\* C7 (as stated): unknown key.  A get of a key that is neither a system key
\* nor known to the registry returns no result, raises nothing and writes
\* nothing.
C7_UnknownKeyAbsent ==
  \A p \in Procs :
    ( /\ calls[p].op = "get" /\ Settled(p)
      /\ calls[p].key \notin aoijs_vars
      /\ ~variableManager_has(calls[p].key, calls[p].table) )
    => /\ calls[p].result.kind = "undefined"
       /\ calls[p].err = "none"
       /\ calls[p].cwrites = 0 /\ calls[p].reads = 0

\* C8 (as stated): failed write-through.  Every set writes the cache once
\* and then attempts the upsert; it fails only if the upsert fails, and then
\* the cache entry holds the new value.
C8_FailedWriteThrough ==
  \A p \in Procs :
    (calls[p].op = "set" /\ Settled(p)) =>
      /\ calls[p].cwrites = 1
      /\ calls[p].err \in {"none", "StorageUnavailable"}
      /\ ( /\ calls[p].err = "StorageUnavailable" /\ calls[p].alone
           /\ \A q \in Procs \ {p} : calls[q].seq < calls[p].seq )
         => CacheGet(cache[calls[p].table], calls[p].ck) = calls[p].value

\* C9 (as stated): uniform addressing.  The compositeKey a get, set or
\* delete uses is the key alone when the id is absent or falsy, otherwise
\* key + "_" + id, and never ends in "_undefined".
C9_UniformAddressing ==
  \A p \in Procs :
    (calls[p].op \in {"get", "set", "delete"} /\ calls[p].ck # NoKey) =>
      /\ calls[p].ck = CompositeKey(calls[p].key, calls[p].id)
      /\ ~EndsWith(calls[p].ck, <<"_">> \o UndefinedStr)

\* C10 (as stated): drop.  The store step of drop(table, key) removes that
\* key's collection and no other, that of drop(table) removes them all, and
\* when the call settles the table's cache has no entries.
C10_DropEvictsAll ==
  [][\A p \in Procs :
       (calls[p].op = "drop" /\ Running(p) /\ calls'[p].pc # calls[p].pc) =>
         LET t == calls[p].table IN
         /\ (calls[p].pc = "start" /\ calls[p].key # NoKey) =>
              \A n \in Keys \ {calls[p].key} :
                CollectionDocs(store'[t], n) = CollectionDocs(store[t], n)
         /\ (calls[p].pc = "start" /\ calls[p].key = NoKey /\ calls'[p].err = "none") =>
              store'[t] = <<>>
         /\ (calls'[p].pc = "done" /\ calls'[p].err \notin StoreErrors) =>
              cache'[t] = EmptyCache]_vars

RECURSIVE TotalDocs(_)
\* The number of documents in all collections of a table.
TotalDocs(cols) == IF cols = <<>> THEN 0 ELSE Len(Head(cols).docs) + TotalDocs(Tail(cols))

\* C12 (as stated): delete removes the record from the first collection of
\* its scan that holds one, evicts the cache entry and stops.  Of the steps
\* of one delete call only deleteOne removes a document, and only one; the
\* scan stops at a collection that holds the record; and when a delete that
\* found a record returns (no other call in flight during it) the cache has
\* no entry for the compositeKey.
C12_DeleteFirstMatch ==
  [][\A p \in Procs :
       (calls[p].op = "delete" /\ Running(p) /\ calls'[p] # calls[p]) =>
         LET c == calls[p]
             t == c.table
         IN /\ c.pc = "deleteOne" => TotalDocs(store'[t]) >= TotalDocs(store[t]) - 1
            /\ c.pc # "deleteOne" => TotalDocs(store'[t]) = TotalDocs(store[t])
            /\ (c.pc = "scan" /\ calls'[p].found) =>
                 /\ HasDoc(store[t], c.cols[c.i], c.ck)
                 /\ calls'[p].i = c.i
            /\ ( /\ calls'[p].pc = "done" /\ calls'[p].found
                 /\ calls'[p].err = "none" /\ calls'[p].alone )
               => ~CacheHas(cache'[t], c.ck)]_vars

\* The cache key a get call computes, per variant.
GetKey(c) ==
  IF impl = "classes" THEN get_cacheKey(c.key, c.id) ELSE u_get_cacheKey(c.key, c.id)

\* The first step of get call p is being taken.
GetStarts(p) ==
  calls[p].op = "get" /\ calls[p].pc = "start" /\ calls'[p].pc # "start"

\* That step answers from the cache entry: no store read, no cache write.
ServedFromCache(p, value) ==
  /\ calls'[p].pc = "done" /\ calls'[p].err = "none"
  /\ calls'[p].result = [kind |-> "pair", key |-> GetKey(calls[p]), value |-> value]
  /\ calls'[p].reads = 0 /\ calls'[p].cwrites = 0
  /\ cache' = cache /\ store' = store

AtMostOneReadOneWrite ==
  \A p \in Procs : calls'[p].op = "get" => calls'[p].reads <= 1 /\ calls'[p].cwrites <= 1

ReadFails(p) ==
  /\ calls[p].op = "get" /\ calls[p].pc \in {"find_sys", "find"}
  /\ calls'[p].pc # calls[p].pc
  /\ calls'[p].reads = calls[p].reads

\* C16: a get on a cache miss whose store read fails ends at once with the
\* store's failure: it has not read again, returns no value (neither a
\* cached one nor the registry default) and leaves the cache as it was.
C16_ReadFailurePropagates ==
  [][\A p \in Procs :
       ReadFails(p) =>
         /\ ~calls[p].hit
         /\ calls'[p].pc = "done"
         /\ calls'[p].err = "StorageUnavailable"
         /\ calls'[p].result = NoResult
         /\ calls'[p].reads = 0 /\ calls'[p].cwrites = 0
         /\ cache' = cache]_vars

\* A get has ended with the failure of its store read.
C16_Witness ==
  \E p \in Procs :
    /\ calls[p].op = "get" /\ calls[p].pc = "done"
    /\ calls[p].err = "StorageUnavailable" /\ ~calls[p].hit

\* get call p, of a system key that was not answered from the cache,
\* returns.
SystemGetReturns(p) ==
  /\ calls[p].op = "get" /\ calls[p].key \in aoijs_vars /\ Running(p)
  /\ calls'[p].pc = "done" /\ calls'[p].err = "none" /\ ~calls'[p].hit

\* The read-through of the specification: one read by compositeKey; a
\* record found is put in the cache and returned as {key, value}; with no
\* record the value is null and the cache is not written.
ReadThrough(p) ==
  LET c == calls'[p]
      t == c.table
  IN /\ c.reads = 1
     /\ c.found => /\ c.result = [kind |-> "pair", key |-> c.ck, value |-> c.doc]
                   /\ cache' = [cache EXCEPT ![t] = CacheSet(@, c.ck, c.doc)]
     /\ ~c.found => /\ c.result = [kind |-> "pair", key |-> c.ck, value |-> Null]
                    /\ cache' = cache

GetAnswer(im, cols, ch, key, id, t) ==
  IF im = "classes"
  THEN LET k == get_cacheKey(key, id)
       IN IF CacheGet(ch, k) # Undefined THEN CacheGet(ch, k)
          ELSE IF key \in aoijs_vars
          THEN (IF HasDoc(cols, key, k) THEN DocValue(cols, key, k) ELSE Null)
          ELSE IF ~variableManager_has(key, t) THEN Undefined
          ELSE IF HasDoc(cols, key, k) THEN DocValue(cols, key, k)
          ELSE variableManager_default(key, t)
  ELSE LET k == u_get_cacheKey(key, id)
       IN IF key \in aoijs_vars
          THEN (IF HasDoc(cols, key, k) THEN DocValue(cols, key, k) ELSE Null)
          ELSE IF ~variableManager_has(key, t) THEN Undefined
          ELSE IF CacheGet(ch, k) \in {Undefined, Null}
          THEN variableManager_default(key, t)
          ELSE CacheGet(ch, k)

\* C19: isolation between addresses.  No step of a set or delete call on one
\* (key, id) of a table changes the value get returns for another (key, id)
\* of that table; so (a, "b") and (a_b, no id) share neither a cache entry
\* nor a document.
C19_AddressIsolation ==
  [][\A p \in Procs :
       (calls[p].op \in {"set", "delete"} /\ Running(p) /\ calls'[p] # calls[p]) =>
         \A a \in Addresses :
           (a[1] # calls[p].key \/ a[2] # calls[p].id) =>
             LET t == calls[p].table
             IN GetAnswer(impl, store'[t], cache'[t], a[1], a[2], t)
                  = GetAnswer(impl, store[t], cache[t], a[1], a[2], t)]_vars

\* The documents of a table, each with the collection that holds it.
Documents(cols) ==
  UNION {{<<cols[i].name, cols[i].docs[j]>> : j \in 1..Len(cols[i].docs)} :
           i \in 1..Len(cols)}

\* A step of deleteMany call p.
DeleteManySteps(p) ==
  calls[p].op = "deleteMany" /\ Running(p) /\ calls'[p] # calls[p]

\* C11: deleteMany removes what its predicate selects and nothing else.  No
\* step of the call removes a document the predicate does not select, and
\* when the call completes, no other call having run during it, no
\* collection of the table holds a document the predicate selects, be the
\* predicate a filter or a function.
C11_DeleteManyRemovesMatching ==
  [][\A p \in Procs :
       DeleteManySteps(p) =>
         LET t == calls[p].table
             q == calls[p].query
         IN /\ \A d \in Documents(store[t]) :
                 ~Matches(q, d[2]) => d \in Documents(store'[t])
            /\ ( /\ calls'[p].pc = "done" /\ calls'[p].alone
                 /\ calls'[p].err \notin StoreErrors )
               => \A d \in Documents(store'[t]) : ~Matches(q, d[2])]_vars

\* C20: no stale cache after deleteMany.  Whenever a step of a deleteMany
\* call, no other call running during it, removes a record from the store,
\* the table's cache holds no entry for that record's key (whatever the
\* key: system key, name with an underscore, no registry default), the
\* eviction having come first; so nothing removed stays cached when the
\* call completes.
C20_DeleteManyEvicts ==
  [][\A p \in Procs :
       (DeleteManySteps(p) /\ calls'[p].alone) =>
         LET t == calls[p].table
         IN \A d \in Documents(store[t]) \ Documents(store'[t]) :
              ~CacheHas(cache'[t], d[2].key)]_vars

\* A scan that has returned its list.
Returned(p, op) ==
  calls[p].op = op /\ calls[p].pc = "done" /\ calls[p].err = "none"

\* The records of the table that the call's filter selects.
Selected(c) == {d[2] : d \in {e \in Documents(store[c.table]) : Matches(c.query, e[2])}}

Range(seq) == {seq[i] : i \in 1..Len(seq)}

SortsBefore(srt, a, b) == IF srt = "asc" THEN a.value < b.value ELSE a.value > b.value

\* C13: all returns records that satisfy the filter, taken from every
\* collection of the table, each once, in ascending ("asc") or descending
\* ("desc") order of value; it returns limit of them, or all when there are
\* fewer, and no record left out sorts strictly before one returned.
C13_AllSortedThenTruncated ==
  \A p \in Procs :
    Returned(p, "all") =>
      LET c == calls[p]
          r == c.results
      IN /\ Range(r) \subseteq Selected(c)
         /\ Cardinality(Range(r)) = Len(r)
         /\ Len(r) = IF c.limit < Cardinality(Selected(c))
                     THEN c.limit ELSE Cardinality(Selected(c))
         /\ \A i, j \in 1..Len(r) : i < j => ~SortsBefore(c.sort, r[j], r[i])
         /\ \A d \in Selected(c) \ Range(r) :
              \A i \in 1..Len(r) : ~SortsBefore(c.sort, d, r[i])

\* The example of the specification: {x: [{x, 1}], y: [{y, 5}]}, filter
\* value > 0, limit 10, "desc" gives [{y, 5}, {x, 1}].
C13_Witness ==
  \E p \in Procs :
    /\ Returned(p, "all")
    /\ store[calls[p].table] = <<ScanCollection(KeyX, <<1>>), ScanCollection(KeyY, <<5>>)>>
    /\ calls[p].query.test = "value>0" /\ calls[p].limit = 10 /\ calls[p].sort = "desc"
    /\ calls[p].results = <<ScanDoc(KeyY, 1, 5), ScanDoc(KeyX, 1, 1)>>

RECURSIVE PerCollection(_, _, _)
\* The first n selected documents of each collection (all of them when n
\* is Undefined), collection after collection.
PerCollection(cols, q, n) ==
  IF cols = <<>> THEN <<>>
  ELSE LET found == SelectSeq(Head(cols).docs, LAMBDA d : Matches(q, d))
       IN (IF n = Undefined THEN found ELSE Slice(found, n))
            \o PerCollection(Tail(cols), q, n)

\* C14 (as stated): findMany called with a limit returns, collection after
\* collection, the first limit records of each collection that the query
\* selects, so at most limit records of any one collection.
C14_PerCollectionLimit ==
  \A p \in Procs :
    (Returned(p, "findMany") /\ calls[p].limit # Undefined) =>
      calls[p].results
        = PerCollection(store[calls[p].table], calls[p].query, calls[p].limit)

\* C14 (amended): so for a limit of 1 or more; with limit 0, as with no
\* limit, every selected record of every collection is returned.
C14_PerCollectionPositiveLimit ==
  \A p \in Procs :
    Returned(p, "findMany") =>
      calls[p].results
        = PerCollection(store[calls[p].table], calls[p].query,
                        IF calls[p].limit = 0 THEN Undefined ELSE calls[p].limit)

\* findMany with limit 1 has returned a record from each of two collections:
\* more than limit in total.
C14_Witness ==
  \E p \in Procs :
    /\ Returned(p, "findMany") /\ calls[p].limit = 1
    /\ Len(calls[p].results) = 2
    /\ \E i \in 1..Len(store[calls[p].table]) :
         Len(SelectSeq(store[calls[p].table][i].docs,
                       LAMBDA d : Matches(calls[p].query, d))) > 1

\* The store is advertised as ready: connect has returned (Database.js
\* having emitted "ready") and the process has not exited.
Advertised(p) ==
  calls[p].op = "connect" /\ calls[p].pc = "done" /\ calls[p].err = "none"

\* C18: startup ordering.  When the store is advertised as ready, every
\* table, the reserved one included, has its cache, and every record
\* stored in the table's collections is in that cache with its value.
C18_ReadyAfterWarmup ==
  \A p \in Procs :
    Advertised(p) =>
      \A n \in 1..Len(db_tables) :
        LET t == db_tables[n]
        IN /\ t \in DOMAIN cache
           /\ \A d \in Documents(store[t]) :
                CacheHas(cache[t], d[2].key) /\ cache[t][d[2].key] = d[2].value

\* The names of the collections of a table.
CollectionNames(cols) == {cols[i].name : i \in 1..Len(cols)}

\* C21: delete targets its own key.  No step of a delete(table, key, id)
\* call changes the documents of a collection other than the one named
\* key, whatever those collections hold and in whatever order they are
\* enumerated.
C21_DeleteOwnCollection ==
  [][\A p \in Procs :
       (calls[p].op = "delete" /\ Running(p) /\ calls'[p] # calls[p]) =>
         LET t == calls[p].table
         IN \A n \in CollectionNames(store[t]) \ {calls[p].key} :
              CollectionDocs(store'[t], n) = CollectionDocs(store[t], n)]_vars
====
